---- MODULE Spec2Model ----
(***************************************************************************)
(* State machine of the desktop-waifu Wayland overlay                      *)
(* (desktop-waifu-overlay/src/main.rs): the character position, the drag   *)
(* state and the quadrant owned by the GTK main loop, and the script       *)
(* message handlers that read and write them; and of the Tauri overlay     *)
(* commands (src-tauri/src/overlay) with their per-platform backends.      *)
(*                                                                         *)
(* A JSON number is represented in half pixels inside a one-element tuple  *)
(* (<<3>> is 1.5), an absent or non-numeric field is the empty tuple.      *)
(* get_screen_dimensions' Option<(i32, i32)> is <<>> for None and          *)
(* <<w, h>> for Some((w, h)).                                              *)
(***************************************************************************)
EXTENDS Integers, Sequences, FiniteSets, TLC

VARIABLES
    position,      \* CharacterPosition {x, y}: absolute screen coordinates
    drag_state,    \* DragState {start_x, start_y, is_dragging}
    quadrant,      \* Quadrant {is_right_half, is_bottom_half}
    anchor,        \* layer-shell anchors of the window, per edge
    margin,        \* layer-shell margins of the window, per edge
    msg,           \* the script message handled by the last step
    emitted,       \* the events the last step dispatched to the renderer
    prev_quadrant, \* the quadrant as it was before the last step
    moved,         \* whether the last step changed the position
    sessions,      \* number of startDrag messages handled so far
    panicked,      \* a handler panicked: the process is gone
    backend,       \* the platform the Tauri overlay commands are built for
    window,        \* the Tauri window's input and stacking attributes
    call,          \* the overlay command executed by the last step
    result,        \* what that command returned: "Ok" or "Err"
    is_visible,    \* the main loop's visibility flag (Rc<RefCell<bool>>)
    window_shown,  \* the last of present(), hide(), close() called on the window
    hotkey_enabled, \* whether IPC commands are acted upon
    tray_visible,  \* DesktopWaifuTray.visible, owned by the tray thread
    tray_receiver, \* TrayMessages sent by the tray, not yet received
    tray_updates,  \* update_tray_visibility calls not yet applied to the tray
    tray_polling,  \* whether the 100 ms tray poll timer is still installed
    ipc_receiver,  \* commands read from the socket, not yet received
    keyboard_mode, \* layer-shell keyboard mode of the window
    is_active,     \* whether the window has the focus
    resize_timers, \* the 50 ms one-shot timers not yet fired (is_expanding of each)
    default_size,  \* the window's default width and height
    window_size,   \* the width and height the window is laid out with
    input_region,  \* the rectangle last given to surface.set_input_region
    layer,         \* layer-shell layer of the window
    dialogs,       \* the file dialogs that are open (callbackId of each)
    requests,      \* background requests: worker, channel and poll timer of each
    handled,       \* the message or event the last step of the shell handled
    dispatched     \* the scripts that step evaluated in the renderer

drag_vars == <<position, drag_state, quadrant, anchor, margin, msg, emitted, prev_quadrant,
              moved, sessions, panicked>>

overlay_vars == <<backend, window, call, result>>

visibility_vars == <<is_visible, window_shown, hotkey_enabled, tray_visible, tray_receiver,
                    tray_updates, tray_polling, ipc_receiver>>

surface_vars == <<keyboard_mode, is_active, resize_timers, default_size, window_size,
                 input_region, layer, dialogs>>

shell_vars == <<visibility_vars, surface_vars, requests, handled, dispatched>>

vars == <<drag_vars, overlay_vars, shell_vars>>

(* What a moveWindow or getQuadrant handler leaves alone. *)
outside_drag == <<overlay_vars, shell_vars>>

(* What a Tauri overlay command leaves alone. *)
outside_overlay == <<drag_vars, shell_vars>>

----------------------------------------------------------------------------
(* Program constants *)

WINDOW_WIDTH_COLLAPSED == 160

WINDOW_HEIGHT_COLLAPSED == 380

(* Bound of the model: how many startDrag messages a behaviour contains. *)
MaxSessions == 2

----------------------------------------------------------------------------
(* 32-bit signed integers *)

I32Max == (2^30 - 1) + 2^30

I32Min == -I32Max - 1

(* i32 addition as the release build computes it: two's complement wrap.  *)
(* The sum is never formed when it leaves the range, only its wrapped     *)
(* value (sum - 2^32 or sum + 2^32).                                      *)
AddI32(a, b) ==
    IF b > 0 /\ a > I32Max - b
    THEN ((a - I32Max) - 1) + ((b - I32Max) - 1)
    ELSE IF b < 0 /\ a < I32Min - b
         THEN ((a + I32Max) + 1) + ((b + I32Max) + 1)
         ELSE a + b

(* Whether the i32 addition a + b leaves the range. *)
OverflowsI32(a, b) ==
    \/ b > 0 /\ a > I32Max - b
    \/ b < 0 /\ a < I32Min - b

(* What an i32 addition does: it yields its value, and when it overflows  *)
(* it either yields the wrapped value (a build without overflow checks)   *)
(* or panics (a build with them, such as the debug build wayland.rs looks *)
(* for): the panic leaves the GTK callback and ends the process.          *)
ArithmeticOutcomes(overflows) == IF overflows THEN {"value", "panic"} ELSE {"value"}

(* serde_json Value::as_f64().unwrap_or(0.0): an absent field is 0.0. *)
AsF64OrZero(v) == IF v = <<>> THEN 0 ELSE v[1]

(* Variant of F64AsI32: rounds down instead of toward zero. *)
F64AsI32Floor(h) == h \div 2

(* Rust `f64 as i32` on a value of h half pixels: truncation toward zero, *)
(* saturating at the ends of the i32 range.                               *)
F64AsI32(h) ==
    LET t == IF h >= 0 THEN h \div 2 ELSE -((-h) \div 2)
    IN  IF t > I32Max THEN I32Max ELSE IF t < I32Min THEN I32Min ELSE t

----------------------------------------------------------------------------
(* Inputs *)

Edges == {"Top", "Bottom", "Left", "Right"}

(* What get_screen_dimensions can return: None or the monitor's geometry. *)
Screens == {<<>>, <<1920, 1080>>}

(* offsetX payloads: absent, fractional and whole pixel counts. *)
OffsetXValues ==
    {<<>>, <<-3>>} \cup {<<2 * k>> : k \in {-911, -909, -900, 0, 100}}

(* offsetY payloads: absent and whole pixel counts. *)
OffsetYValues ==
    {<<>>} \cup {<<2 * k>> : k \in {-900, -381, 0, 102}}

NoOffset == <<>>

NoScreen == <<>>

Message(kind, offsetX, offsetY, screen) ==
    [kind |-> kind, offsetX |-> offsetX, offsetY |-> offsetY, screen |-> screen]

----------------------------------------------------------------------------
(* Events dispatched to the renderer *)

CharacterMove(x, y) == [name |-> "characterMove", x |-> x, y |-> y]

QuadrantChange(is_right, is_bottom) ==
    [name |-> "quadrantChange", isRightHalf |-> is_right, isBottomHalf |-> is_bottom]

InitialState(x, y, is_right, is_bottom, screen_width, screen_height) ==
    [name |-> "initialState", x |-> x, y |-> y,
     isRightHalf |-> is_right, isBottomHalf |-> is_bottom,
     screenWidth |-> screen_width, screenHeight |-> screen_height]

----------------------------------------------------------------------------
(* Quadrant classification, as endDrag and getQuadrant compute it *)

CharCenterX(pos) == AddI32(pos.x, WINDOW_WIDTH_COLLAPSED \div 2)

CharCenterY(pos) == AddI32(pos.y, WINDOW_HEIGHT_COLLAPSED \div 2)

(* Variant of IsRightHalf: compares with the screen width, not its half. *)
IsRightHalfWholeWidth(pos, screen_width) == CharCenterX(pos) >= screen_width

(* Variant of IsRightHalf: compares the vertical centre with the screen's *)
(* horizontal midpoint.                                                  *)
IsRightHalfFromY(pos, screen_width) == CharCenterY(pos) >= screen_width \div 2

IsRightHalf(pos, screen_width) == CharCenterX(pos) >= screen_width \div 2

IsBottomHalf(pos, screen_height) == CharCenterY(pos) >= screen_height \div 2

(* Whether one of the two centre additions leaves the i32 range. *)
CenterOverflows(pos) ==
    \/ OverflowsI32(pos.x, WINDOW_WIDTH_COLLAPSED \div 2)
    \/ OverflowsI32(pos.y, WINDOW_HEIGHT_COLLAPSED \div 2)

ClassifyQuadrant(pos, screen) ==
    [is_right_half |-> IsRightHalf(pos, screen[1]),
     is_bottom_half |-> IsBottomHalf(pos, screen[2])]

----------------------------------------------------------------------------
(* CharacterPosition::default *)
DefaultPosition ==
    [x |-> 1920 - WINDOW_WIDTH_COLLAPSED - 20,
     y |-> 1080 - WINDOW_HEIGHT_COLLAPSED - 20]

----------------------------------------------------------------------------
(* The Tauri window the overlay commands act on *)

(* The cfg branches of the commands in overlay/mod.rs; the unix branch    *)
(* splits on is_wayland().                                                *)
Backends == {"wayland", "x11", "windows", "macos"}

NoRegion == <<>>

(* The rectangles (x, y, width, height) set_input_region is called with. *)
Rects == {<<0, 0, 160, 380>>, <<10, 20, 100, 200>>}

(* A window no overlay command has touched yet. *)
DefaultWindow ==
    [ignore_cursor_events |-> FALSE,  \* click-through: WS_EX_TRANSPARENT,
                                      \* ignoresMouseEvents
     region |-> NoRegion,             \* the window region (SetWindowRgn)
     always_on_top |-> FALSE,         \* topmost / raised window level
     layered |-> FALSE,               \* WS_EX_LAYERED
     toolwindow |-> FALSE,            \* WS_EX_TOOLWINDOW
     all_spaces |-> FALSE,            \* NSWindow collection behaviour
     transparent |-> FALSE,           \* NSWindow opaque NO, no background
     excluded_from_menu |-> FALSE]    \* NSWindow excludedFromWindowsMenu

Call(op, enabled, rect, fail) ==
    [op |-> op, enabled |-> enabled, rect |-> rect, fail |-> fail]

NoCall == Call("none", FALSE, NoRegion, "none")

(* No overlay command has run on the given backend. *)
InitOverlay(b) ==
    /\ backend = b
    /\ window = DefaultWindow
    /\ call = NoCall
    /\ result = "Ok"

----------------------------------------------------------------------------
(* The shell of the overlay binary: visibility, tray, IPC, keyboard mode, *)
(* input region, layer, file dialogs and background requests              *)

WINDOW_WIDTH_EXPANDED == 800

WINDOW_HEIGHT_EXPANDED == 1000

(* The input region before any setInputRegion message: none was set. *)
NoInputRegion == <<>>

(* What the last step handled: a message, a timer or an event, by name, *)
(* with the argument it carried.                                        *)
Handled(name, arg) == [name |-> name, arg |-> arg]

(* The visibility flag, the tray and the channels after build_ui: the *)
(* window is presented, the hotkey is off, nothing is queued.         *)
InitVisibility ==
    /\ is_visible = TRUE
    /\ window_shown = "present"
    /\ hotkey_enabled = FALSE
    /\ tray_visible = TRUE
    /\ tray_receiver = <<>>
    /\ tray_updates = <<>>
    /\ tray_polling = TRUE
    /\ ipc_receiver = <<>>

(* The window after build_ui: collapsed, on the Overlay layer, keyboard *)
(* mode OnDemand, not yet focused, no input region set, no dialog open. *)
InitSurface ==
    /\ keyboard_mode = "OnDemand"
    /\ is_active = FALSE
    /\ resize_timers = <<>>
    /\ default_size = <<WINDOW_WIDTH_COLLAPSED, WINDOW_HEIGHT_COLLAPSED>>
    /\ window_size = <<WINDOW_WIDTH_COLLAPSED, WINDOW_HEIGHT_COLLAPSED>>
    /\ input_region = NoInputRegion
    /\ layer = "Overlay"
    /\ dialogs = <<>>

InitShell ==
    /\ InitVisibility
    /\ InitSurface
    /\ requests = <<>>
    /\ handled = Handled("init", <<>>)
    /\ dispatched = <<>>

----------------------------------------------------------------------------
(* State after build_ui *)
InitDrag ==
    /\ position = DefaultPosition
    /\ drag_state = [start_x |-> 0, start_y |-> 0, is_dragging |-> FALSE]
    /\ quadrant = [is_right_half |-> TRUE, is_bottom_half |-> TRUE]
    /\ anchor = [e \in Edges |-> TRUE]
    /\ margin = [e \in Edges |-> 0]
    /\ msg = Message("init", NoOffset, NoOffset, NoScreen)
    /\ emitted = <<>>
    /\ prev_quadrant = [is_right_half |-> TRUE, is_bottom_half |-> TRUE]
    /\ moved = FALSE
    /\ sessions = 0
    /\ panicked = FALSE

(* The overlay binary runs where the session is Wayland. *)
Init == InitDrag /\ InitOverlay("wayland") /\ InitShell

----------------------------------------------------------------------------
(* moveWindow handler *)

(* Variant of the startDrag action that starts the drag but keeps the *)
(* start position of the earlier session.                             *)
MoveWindowStartDragNoSnapshot ==
    /\ ~panicked
    /\ sessions < MaxSessions
    /\ sessions' = sessions + 1
    /\ drag_state' = [drag_state EXCEPT !.is_dragging = TRUE]
    /\ msg' = Message("startDrag", NoOffset, NoOffset, NoScreen)
    /\ emitted' = <<>>
    /\ prev_quadrant' = quadrant
    /\ UNCHANGED <<position, quadrant, anchor, margin, panicked, outside_drag>>
    /\ moved' = (position' # position)

(* action "startDrag" *)
MoveWindowStartDrag ==
    /\ ~panicked
    /\ sessions < MaxSessions
    /\ sessions' = sessions + 1
    /\ drag_state' = [start_x |-> position.x, start_y |-> position.y,
                      is_dragging |-> TRUE]
    /\ msg' = Message("startDrag", NoOffset, NoOffset, NoScreen)
    /\ emitted' = <<>>
    /\ prev_quadrant' = quadrant
    /\ UNCHANGED <<position, quadrant, anchor, margin, panicked, outside_drag>>
    /\ moved' = (position' # position)

(* The drag arm past its is_dragging check: the new position is the base *)
(* plus the offset. An addition that leaves the i32 range panics in a    *)
(* build with overflow checks, before anything is stored, and wraps in a *)
(* build without them.                                                   *)
ApplyDrag(base_x, base_y, offset_x, offset_y) ==
    \E outcome \in ArithmeticOutcomes(\/ OverflowsI32(base_x, offset_x)
                                      \/ OverflowsI32(base_y, offset_y)) :
        IF outcome = "panic"
        THEN /\ panicked' = TRUE
             /\ emitted' = <<>>
             /\ UNCHANGED position
        ELSE LET new_x == AddI32(base_x, offset_x)
                 new_y == AddI32(base_y, offset_y)
             IN  /\ position' = [x |-> new_x, y |-> new_y]
                 /\ emitted' = <<CharacterMove(new_x, new_y)>>
                 /\ UNCHANGED panicked

(* Variant of the drag action without the is_dragging check. *)
MoveWindowDragNoGuard(offsetX, offsetY) ==
    /\ ~panicked
    /\ msg' = Message("drag", offsetX, offsetY, NoScreen)
    /\ prev_quadrant' = quadrant
    /\ ApplyDrag(drag_state.start_x, drag_state.start_y,
                 F64AsI32(AsF64OrZero(offsetX)), F64AsI32(AsF64OrZero(offsetY)))
    /\ UNCHANGED <<drag_state, quadrant, anchor, margin, sessions, outside_drag>>
    /\ moved' = (position' # position)

(* Variant of the drag action that subtracts the offset from the start. *)
MoveWindowDragSubtract(offsetX, offsetY) ==
    /\ ~panicked
    /\ msg' = Message("drag", offsetX, offsetY, NoScreen)
    /\ prev_quadrant' = quadrant
    /\ IF ~drag_state.is_dragging
       THEN /\ emitted' = <<>>
            /\ UNCHANGED <<position, panicked>>
       ELSE ApplyDrag(drag_state.start_x, drag_state.start_y,
                      -F64AsI32(AsF64OrZero(offsetX)), -F64AsI32(AsF64OrZero(offsetY)))
    /\ UNCHANGED <<drag_state, quadrant, anchor, margin, sessions, outside_drag>>
    /\ moved' = (position' # position)

(* Variant of the drag action that adds the offset to the current *)
(* position instead of the position saved at startDrag.           *)
MoveWindowDragAccumulate(offsetX, offsetY) ==
    /\ ~panicked
    /\ msg' = Message("drag", offsetX, offsetY, NoScreen)
    /\ prev_quadrant' = quadrant
    /\ IF ~drag_state.is_dragging
       THEN /\ emitted' = <<>>
            /\ UNCHANGED <<position, panicked>>
       ELSE ApplyDrag(position.x, position.y,
                      F64AsI32(AsF64OrZero(offsetX)), F64AsI32(AsF64OrZero(offsetY)))
    /\ UNCHANGED <<drag_state, quadrant, anchor, margin, sessions, outside_drag>>
    /\ moved' = (position' # position)

(* Variant of the drag action that dispatches characterMove only when *)
(* the position has changed.                                          *)
MoveWindowDragCoalesce(offsetX, offsetY) ==
    /\ ~panicked
    /\ msg' = Message("drag", offsetX, offsetY, NoScreen)
    /\ prev_quadrant' = quadrant
    /\ IF ~drag_state.is_dragging
       THEN /\ emitted' = <<>>
            /\ UNCHANGED <<position, panicked>>
       ELSE LET new_x == AddI32(drag_state.start_x, F64AsI32(AsF64OrZero(offsetX)))
                new_y == AddI32(drag_state.start_y, F64AsI32(AsF64OrZero(offsetY)))
            IN  /\ position' = [x |-> new_x, y |-> new_y]
                /\ emitted' = IF position' = position
                              THEN <<>>
                              ELSE <<CharacterMove(new_x, new_y)>>
                /\ UNCHANGED panicked
    /\ UNCHANGED <<drag_state, quadrant, anchor, margin, sessions, outside_drag>>
    /\ moved' = (position' # position)

(* action "drag" *)
MoveWindowDrag(offsetX, offsetY) ==
    /\ ~panicked
    /\ msg' = Message("drag", offsetX, offsetY, NoScreen)
    /\ prev_quadrant' = quadrant
    /\ IF ~drag_state.is_dragging
       THEN /\ emitted' = <<>>
            /\ UNCHANGED <<position, panicked>>
       ELSE LET offset_x == F64AsI32(AsF64OrZero(offsetX))
                offset_y == F64AsI32(AsF64OrZero(offsetY))
            IN  ApplyDrag(drag_state.start_x, drag_state.start_y, offset_x, offset_y)
    /\ UNCHANGED <<drag_state, quadrant, anchor, margin, sessions, outside_drag>>
    /\ moved' = (position' # position)

(* Variant of the endDrag action that looks at the horizontal half only *)
(* when deciding whether the quadrant changed.                          *)
MoveWindowEndDragRightOnly(screen) ==
    /\ ~panicked
    /\ msg' = Message("endDrag", NoOffset, NoOffset, screen)
    /\ prev_quadrant' = quadrant
    /\ drag_state' = [drag_state EXCEPT !.is_dragging = FALSE]
    /\ IF screen # NoScreen
       THEN \E outcome \in ArithmeticOutcomes(CenterOverflows(position)) :
            IF outcome = "panic"
            THEN /\ panicked' = TRUE
                 /\ emitted' = <<>>
                 /\ UNCHANGED quadrant
            ELSE LET new_quadrant == ClassifyQuadrant(position, screen)
                     quadrant_changed ==
                         new_quadrant.is_right_half # quadrant.is_right_half
                 IN  /\ UNCHANGED panicked
                     /\ IF quadrant_changed
                        THEN /\ quadrant' = new_quadrant
                             /\ emitted' =
                                    <<QuadrantChange(new_quadrant.is_right_half,
                                                     new_quadrant.is_bottom_half)>>
                        ELSE /\ emitted' = <<>>
                             /\ UNCHANGED quadrant
       ELSE /\ emitted' = <<>>
            /\ UNCHANGED <<quadrant, panicked>>
    /\ UNCHANGED <<position, anchor, margin, sessions, outside_drag>>
    /\ moved' = (position' # position)

(* Variant of the endDrag action that, when the quadrant changes, stores *)
(* the distances from the right and bottom screen edges as the position. *)
MoveWindowEndDragMirror(screen) ==
    /\ ~panicked
    /\ msg' = Message("endDrag", NoOffset, NoOffset, screen)
    /\ prev_quadrant' = quadrant
    /\ drag_state' = [drag_state EXCEPT !.is_dragging = FALSE]
    /\ IF screen # NoScreen
       THEN \E outcome \in ArithmeticOutcomes(CenterOverflows(position)) :
            IF outcome = "panic"
            THEN /\ panicked' = TRUE
                 /\ emitted' = <<>>
                 /\ UNCHANGED <<quadrant, position>>
            ELSE LET new_quadrant == ClassifyQuadrant(position, screen)
                     quadrant_changed ==
                         \/ new_quadrant.is_right_half # quadrant.is_right_half
                         \/ new_quadrant.is_bottom_half # quadrant.is_bottom_half
                 IN  /\ UNCHANGED panicked
                     /\ IF quadrant_changed
                        THEN /\ quadrant' = new_quadrant
                             /\ emitted' =
                                    <<QuadrantChange(new_quadrant.is_right_half,
                                                     new_quadrant.is_bottom_half)>>
                             /\ position' =
                                    [x |-> screen[1] - position.x
                                              - WINDOW_WIDTH_COLLAPSED,
                                     y |-> screen[2] - position.y
                                              - WINDOW_HEIGHT_COLLAPSED]
                        ELSE /\ emitted' = <<>>
                             /\ UNCHANGED <<quadrant, position>>
       ELSE /\ emitted' = <<>>
            /\ UNCHANGED <<quadrant, position, panicked>>
    /\ UNCHANGED <<anchor, margin, sessions, outside_drag>>
    /\ moved' = (position' # position)

(* Variant of the endDrag action that ends the drag only when the screen *)
(* size is at hand.                                                      *)
MoveWindowEndDragNeedsScreen(screen) ==
    /\ ~panicked
    /\ msg' = Message("endDrag", NoOffset, NoOffset, screen)
    /\ prev_quadrant' = quadrant
    /\ IF screen # NoScreen
       THEN \E outcome \in ArithmeticOutcomes(CenterOverflows(position)) :
            IF outcome = "panic"
            THEN /\ panicked' = TRUE
                 /\ emitted' = <<>>
                 /\ UNCHANGED <<quadrant, drag_state>>
            ELSE LET new_quadrant == ClassifyQuadrant(position, screen)
                     quadrant_changed ==
                         \/ new_quadrant.is_right_half # quadrant.is_right_half
                         \/ new_quadrant.is_bottom_half # quadrant.is_bottom_half
                 IN  /\ UNCHANGED panicked
                     /\ drag_state' = [drag_state EXCEPT !.is_dragging = FALSE]
                     /\ IF quadrant_changed
                        THEN /\ quadrant' = new_quadrant
                             /\ emitted' =
                                    <<QuadrantChange(new_quadrant.is_right_half,
                                                     new_quadrant.is_bottom_half)>>
                        ELSE /\ emitted' = <<>>
                             /\ UNCHANGED quadrant
       ELSE /\ emitted' = <<>>
            /\ UNCHANGED <<quadrant, panicked, drag_state>>
    /\ UNCHANGED <<position, anchor, margin, sessions, outside_drag>>
    /\ moved' = (position' # position)

(* action "endDrag": the drag ends first; then, with the screen size at   *)
(* hand, the centre is computed (an overflowing addition panics or wraps) *)
(* and the quadrant is stored and reported if it changed.                 *)
MoveWindowEndDrag(screen) ==
    /\ ~panicked
    /\ msg' = Message("endDrag", NoOffset, NoOffset, screen)
    /\ prev_quadrant' = quadrant
    /\ drag_state' = [drag_state EXCEPT !.is_dragging = FALSE]
    /\ IF screen # NoScreen
       THEN \E outcome \in ArithmeticOutcomes(CenterOverflows(position)) :
            IF outcome = "panic"
            THEN /\ panicked' = TRUE
                 /\ emitted' = <<>>
                 /\ UNCHANGED quadrant
            ELSE LET new_quadrant == ClassifyQuadrant(position, screen)
                     quadrant_changed ==
                         \/ new_quadrant.is_right_half # quadrant.is_right_half
                         \/ new_quadrant.is_bottom_half # quadrant.is_bottom_half
                 IN  /\ UNCHANGED panicked
                     /\ IF quadrant_changed
                        THEN /\ quadrant' = new_quadrant
                             /\ emitted' =
                                    <<QuadrantChange(new_quadrant.is_right_half,
                                                     new_quadrant.is_bottom_half)>>
                        ELSE /\ emitted' = <<>>
                             /\ UNCHANGED quadrant
       ELSE /\ emitted' = <<>>
            /\ UNCHANGED <<quadrant, panicked>>
    /\ UNCHANGED <<position, anchor, margin, sessions, outside_drag>>
    /\ moved' = (position' # position)

(* any other action tag *)
MoveWindowOther ==
    /\ ~panicked
    /\ msg' = Message("unknown", NoOffset, NoOffset, NoScreen)
    /\ prev_quadrant' = quadrant
    /\ emitted' = <<>>
    /\ UNCHANGED <<position, drag_state, quadrant, anchor, margin, sessions, panicked,
                   outside_drag>>
    /\ moved' = (position' # position)

(* Variant of the getQuadrant handler that classifies against a 1920x1080 *)
(* screen when the screen size is not at hand.                            *)
GetQuadrantDefaultScreen(screen) ==
    /\ ~panicked
    /\ msg' = Message("getQuadrant", NoOffset, NoOffset, screen)
    /\ prev_quadrant' = quadrant
    /\ \E outcome \in ArithmeticOutcomes(CenterOverflows(position)) :
       IF outcome = "panic"
       THEN /\ panicked' = TRUE
            /\ emitted' = <<>>
            /\ UNCHANGED quadrant
       ELSE LET size == IF screen # NoScreen THEN screen ELSE <<1920, 1080>>
                current_quadrant == ClassifyQuadrant(position, size)
            IN  /\ UNCHANGED panicked
                /\ quadrant' = current_quadrant
                /\ emitted' = <<InitialState(position.x, position.y,
                                             current_quadrant.is_right_half,
                                             current_quadrant.is_bottom_half,
                                             size[1], size[2])>>
    /\ UNCHANGED <<position, drag_state, anchor, margin, sessions, outside_drag>>
    /\ moved' = (position' # position)

(* Variant of the getQuadrant handler that reports the quadrant stored *)
(* before the message instead of the one it has just classified.       *)
GetQuadrantStale(screen) ==
    /\ ~panicked
    /\ msg' = Message("getQuadrant", NoOffset, NoOffset, screen)
    /\ prev_quadrant' = quadrant
    /\ IF screen # NoScreen
       THEN \E outcome \in ArithmeticOutcomes(CenterOverflows(position)) :
            IF outcome = "panic"
            THEN /\ panicked' = TRUE
                 /\ emitted' = <<>>
                 /\ UNCHANGED quadrant
            ELSE LET current_quadrant == ClassifyQuadrant(position, screen)
                 IN  /\ UNCHANGED panicked
                     /\ quadrant' = current_quadrant
                     /\ emitted' = <<InitialState(position.x, position.y,
                                                  quadrant.is_right_half,
                                                  quadrant.is_bottom_half,
                                                  screen[1], screen[2])>>
       ELSE /\ emitted' = <<>>
            /\ UNCHANGED <<quadrant, panicked>>
    /\ UNCHANGED <<position, drag_state, anchor, margin, sessions, outside_drag>>
    /\ moved' = (position' # position)

(* getQuadrant handler *)
GetQuadrant(screen) ==
    /\ ~panicked
    /\ msg' = Message("getQuadrant", NoOffset, NoOffset, screen)
    /\ prev_quadrant' = quadrant
    /\ IF screen # NoScreen
       THEN \E outcome \in ArithmeticOutcomes(CenterOverflows(position)) :
            IF outcome = "panic"
            THEN /\ panicked' = TRUE
                 /\ emitted' = <<>>
                 /\ UNCHANGED quadrant
            ELSE LET current_quadrant == ClassifyQuadrant(position, screen)
                 IN  /\ UNCHANGED panicked
                     /\ quadrant' = current_quadrant
                     /\ emitted' = <<InitialState(position.x, position.y,
                                                  current_quadrant.is_right_half,
                                                  current_quadrant.is_bottom_half,
                                                  screen[1], screen[2])>>
       ELSE /\ emitted' = <<>>
            /\ UNCHANGED <<quadrant, panicked>>
    /\ UNCHANGED <<position, drag_state, anchor, margin, sessions, outside_drag>>
    /\ moved' = (position' # position)

Next ==
    \/ MoveWindowStartDrag
    \/ \E offsetX \in OffsetXValues, offsetY \in OffsetYValues :
          MoveWindowDrag(offsetX, offsetY)
    \/ \E screen \in Screens : MoveWindowEndDrag(screen)
    \/ MoveWindowOther
    \/ \E screen \in Screens : GetQuadrant(screen)

Spec == Init /\ [][Next]_vars

----------------------------------------------------------------------------
(* Vocabulary of the properties below *)

(* The window's centre, from its top-left corner and collapsed size. *)
CenterX(pos) == pos.x + WINDOW_WIDTH_COLLAPSED \div 2

CenterY(pos) == pos.y + WINDOW_HEIGHT_COLLAPSED \div 2

(* The screen midpoint on each axis. *)
MidX(screen) == screen[1] \div 2

MidY(screen) == screen[2] \div 2

(* A number of h half pixels cut to whole pixels, toward zero. *)
TowardZero(h) == IF h >= 0 THEN h \div 2 ELSE -((-h) \div 2)

(* The step handles an endDrag for which the screen geometry is known. *)
EndDragWithGeometry == msg'.kind = "endDrag" /\ msg'.screen # NoScreen

BottomRight == [is_right_half |-> TRUE, is_bottom_half |-> TRUE]

TopLeft == [is_right_half |-> FALSE, is_bottom_half |-> FALSE]

----------------------------------------------------------------------------
(* C1: a drag message handled while the drag state is idle is ignored:    *)
(* the stored position, the drag state, the quadrant and the window's     *)
(* anchors and margins are unchanged and no event is dispatched.          *)
DragWhileIdleIgnored ==
    [][(msg'.kind = "drag" /\ ~drag_state.is_dragging) =>
          /\ position' = position
          /\ drag_state' = drag_state
          /\ quadrant' = quadrant
          /\ anchor' = anchor
          /\ margin' = margin
          /\ emitted' = <<>>]_vars

(* A drag with a non-zero offset was handled while idle, after the window *)
(* had been moved by an earlier session.                                  *)
DragWhileIdleHandled ==
    /\ msg.kind = "drag"
    /\ msg.offsetX = <<-1800>>
    /\ msg.offsetY = <<-1800>>
    /\ ~drag_state.is_dragging
    /\ position # DefaultPosition
    /\ emitted = <<>>
    /\ ~moved

(* C2: both stored placement coordinates are never negative. *)
MarginsNonNegative == position.x >= 0 /\ position.y >= 0

(* C3: an endDrag that finds the window centre H-1 = 49 pixels to either  *)
(* side of the screen midpoint on an axis leaves the stored half of that  *)
(* axis unchanged, and dispatches no quadrantChange when that is so on    *)
(* both axes.                                                             *)
HysteresisStability ==
    [][EndDragWithGeometry =>
          LET H == 50
              cx == CenterX(position)
              cy == CenterY(position)
              mx == MidX(msg'.screen)
              my == MidY(msg'.screen)
              inBandX == cx \in {mx - (H - 1), mx + (H - 1)}
              inBandY == cy \in {my - (H - 1), my + (H - 1)}
          IN  /\ inBandX => quadrant'.is_right_half = quadrant.is_right_half
              /\ inBandY => quadrant'.is_bottom_half = quadrant.is_bottom_half
              /\ (inBandX /\ inBandY) => emitted' = <<>>]_vars

(* C4: an endDrag that finds the window centre at mid + (H+1) = mid + 51  *)
(* on an axis while the stored half of that axis is left/top stores       *)
(* right/bottom; at mid - 51 while right/bottom is stored it stores       *)
(* left/top.                                                              *)
HysteresisResponsiveness ==
    [][EndDragWithGeometry =>
          LET H == 50
              cx == CenterX(position)
              cy == CenterY(position)
              mx == MidX(msg'.screen)
              my == MidY(msg'.screen)
          IN  /\ (cx = mx + (H + 1) /\ ~quadrant.is_right_half)
                    => quadrant'.is_right_half
              /\ (cx = mx - (H + 1) /\ quadrant.is_right_half)
                    => ~quadrant'.is_right_half
              /\ (cy = my + (H + 1) /\ ~quadrant.is_bottom_half)
                    => quadrant'.is_bottom_half
              /\ (cy = my - (H + 1) /\ quadrant.is_bottom_half)
                    => ~quadrant'.is_bottom_half]_vars

(* An endDrag found the centre 51 pixels right of the midpoint while the  *)
(* left half was stored, and the right half is stored now.                *)
FlippedToRightAtBandEdge ==
    /\ msg.kind = "endDrag"
    /\ msg.screen # NoScreen
    /\ CenterX(position) = MidX(msg.screen) + 51
    /\ ~prev_quadrant.is_right_half
    /\ quadrant.is_right_half

(* C5: on endDrag with screen geometry, a quadrantChange event is         *)
(* dispatched exactly when the newly classified quadrant differs from the *)
(* stored one; then the new quadrant is stored and the event carries it;  *)
(* otherwise the stored quadrant is unchanged and nothing is dispatched.  *)
QuadrantChangeIffDiffers ==
    [][EndDragWithGeometry =>
          LET new == ClassifyQuadrant(position, msg'.screen)
          IN  IF new # quadrant
              THEN /\ quadrant' = new
                   /\ emitted' = <<QuadrantChange(new.is_right_half,
                                                  new.is_bottom_half)>>
              ELSE /\ quadrant' = quadrant
                   /\ emitted' = <<>>]_vars

(* An endDrag changed the vertical half only and reported the quadrant. *)
QuadrantChangeOnOneAxis ==
    /\ msg.kind = "endDrag"
    /\ msg.screen # NoScreen
    /\ prev_quadrant = BottomRight
    /\ quadrant = [is_right_half |-> TRUE, is_bottom_half |-> FALSE]
    /\ emitted = <<QuadrantChange(TRUE, FALSE)>>

(* C7: endDrag never changes the window's absolute top-left position,     *)
(* nor the anchors and margins of the window, whether or not the quadrant *)
(* changes.                                                               *)
EndDragKeepsPosition ==
    [][msg'.kind = "endDrag" =>
          /\ position' = position
          /\ anchor' = anchor
          /\ margin' = margin]_vars

(* An endDrag changed the quadrant of a window that had been dragged away *)
(* from its default position.                                             *)
EndDragChangedQuadrant ==
    /\ msg.kind = "endDrag"
    /\ quadrant # prev_quadrant
    /\ position # DefaultPosition
    /\ ~moved

(* The scenario's steps: the window starts 20 pixels from the right and   *)
(* bottom edges of a 1920x1080 screen, in quadrant right/bottom.          *)
ScenarioOrigin == [x |-> 1920 - 160 - 20, y |-> 1080 - 380 - 20]

ScenarioStartDrag ==
    msg'.kind = "startDrag" /\ position = ScenarioOrigin /\ quadrant = BottomRight

ScenarioDrag ==
    /\ msg'.kind = "drag"
    /\ msg'.offsetX = <<2 * (-900)>>
    /\ msg'.offsetY = <<2 * (-900)>>
    /\ drag_state = [start_x |-> ScenarioOrigin.x, start_y |-> ScenarioOrigin.y,
                     is_dragging |-> TRUE]
    /\ quadrant = BottomRight

ScenarioDragged == [x |-> ScenarioOrigin.x - 900, y |-> ScenarioOrigin.y - 900]

ScenarioEndDrag ==
    /\ msg'.kind = "endDrag"
    /\ msg'.screen = <<1920, 1080>>
    /\ drag_state.is_dragging
    /\ position = ScenarioDragged
    /\ quadrant = BottomRight

(* The margins 920, 920 from the right and bottom edges during the drag. *)
ScenarioMargins(pos) ==
    /\ 1920 - pos.x - 160 = 920
    /\ 1080 - pos.y - 380 = 920

DragWhileDragging ==
    /\ msg'.kind = "drag"
    /\ msg'.offsetX # NoOffset
    /\ msg'.offsetY # NoOffset
    /\ drag_state.is_dragging

DragZeroAfterDrag ==
    /\ msg'.kind = "drag"
    /\ msg'.offsetX = <<0>>
    /\ msg'.offsetY = <<0>>
    /\ msg.kind = "drag"
    /\ drag_state.is_dragging

(* C10 as stated: after startDrag, drag(dx, dy), drag(0, 0) the placement *)
(* is the one startDrag, drag(dx, dy) alone produces, that is, the        *)
(* drag(0, 0) leaves the placement as the drag(dx, dy) left it.           *)
DragZeroKeepsPlacement ==
    [][DragZeroAfterDrag => position' = position]_vars

(* C10 amended: after startDrag, drag(dx, dy), drag(0, 0) the placement   *)
(* is the origin saved at startDrag, the one startDrag, drag(0, 0) alone  *)
(* produces.                                                              *)
DragZeroRestoresOrigin ==
    [][DragZeroAfterDrag =>
          position' = [x |-> drag_state.start_x, y |-> drag_state.start_y]]_vars

(* A drag(0, 0) brought the window back to the origin of the session. *)
DragZeroMovedBack ==
    /\ msg.kind = "drag"
    /\ msg.offsetX = <<0>>
    /\ msg.offsetY = <<0>>
    /\ drag_state.is_dragging
    /\ position = [x |-> drag_state.start_x, y |-> drag_state.start_y]
    /\ moved

----------------------------------------------------------------------------
(* C11: a startDrag handled while a drag is already in progress is        *)
(* ignored: the drag state, with the origin saved when the session began, *)
(* is left as it was.                                                     *)
StartDragWhileDraggingIgnored ==
    [][(msg'.kind = "startDrag" /\ drag_state.is_dragging) =>
          drag_state' = drag_state]_vars

(* C12: once a startDrag has been handled the drag is in progress and the *)
(* saved origin is the stored position; the step changed neither the      *)
(* stored position nor the stored quadrant and dispatched no event.       *)
StartDragSnapshotsPosition ==
    msg.kind = "startDrag" =>
        /\ drag_state = [start_x |-> position.x, start_y |-> position.y,
                         is_dragging |-> TRUE]
        /\ ~moved
        /\ quadrant = prev_quadrant
        /\ emitted = <<>>

(* The first startDrag of a run, necessarily handled while idle, saved *)
(* the default position as the origin.                                 *)
StartDragFromIdleHandled ==
    /\ msg.kind = "startDrag"
    /\ sessions = 1
    /\ drag_state = [start_x |-> DefaultPosition.x, start_y |-> DefaultPosition.y,
                     is_dragging |-> TRUE]
    /\ position = DefaultPosition
    /\ emitted = <<>>

(* C13: every endDrag, handled while idle or dragging and with or without *)
(* the screen size, leaves the drag state idle; the drag state stays idle *)
(* until a startDrag is handled, and a drag handled while it is idle      *)
(* changes no position and dispatches no event.                           *)
EndDragTerminatesSession ==
    [][/\ msg'.kind = "endDrag" => ~drag_state'.is_dragging
       /\ (~drag_state.is_dragging /\ msg'.kind # "startDrag") =>
              ~drag_state'.is_dragging
       /\ (~drag_state.is_dragging /\ msg'.kind = "drag") =>
              (position' = position /\ emitted' = <<>>)]_vars

(* An endDrag was handled without the screen size, after a session that *)
(* had moved the window, and left the drag state idle.                  *)
EndDragWithoutGeometryHandled ==
    /\ msg.kind = "endDrag"
    /\ msg.screen = NoScreen
    /\ sessions = 1
    /\ position # DefaultPosition
    /\ ~drag_state.is_dragging

(* C14: an endDrag or getQuadrant handled while the screen size is not    *)
(* available leaves the stored quadrant and the stored position as they   *)
(* were and dispatches no event.                                          *)
GeometryUnavailableSkipsUpdate ==
    (msg.kind \in {"endDrag", "getQuadrant"} /\ msg.screen = NoScreen) =>
        /\ quadrant = prev_quadrant
        /\ ~moved
        /\ emitted = <<>>

(* A getQuadrant was handled without the screen size while the window sat *)
(* in the top left of what a 1920x1080 screen would be and the stored     *)
(* quadrant was still bottom right.                                       *)
GetQuadrantWithoutGeometryHandled ==
    /\ msg.kind = "getQuadrant"
    /\ msg.screen = NoScreen
    /\ ClassifyQuadrant(position, <<1920, 1080>>) = TopLeft
    /\ quadrant = BottomRight
    /\ emitted = <<>>

----------------------------------------------------------------------------
(* The same handlers under offsets of any size an i32 can hold *)

(* The largest whole pixel count whose half-pixel count fits the integers *)
(* of the model.                                                          *)
FarOffset == 2^30 - 1

(* An offset that, added to a window dragged by FarOffset from the        *)
(* default position, leaves it 34 pixels short of the i32 maximum on the  *)
(* x axis.                                                                *)
NearEdgeOffset == 2^30 - 1774

WideOffsetXValues ==
    {<<>>} \cup {<<2 * k>> : k \in {FarOffset, NearEdgeOffset, -FarOffset, 100}}

WideOffsetYValues ==
    {<<>>} \cup {<<2 * k>> : k \in {FarOffset, -FarOffset}}

WideNext ==
    \/ MoveWindowStartDrag
    \/ \E offsetX \in WideOffsetXValues, offsetY \in WideOffsetYValues :
          MoveWindowDrag(offsetX, offsetY)
    \/ \E screen \in Screens : MoveWindowEndDrag(screen)
    \/ MoveWindowOther
    \/ \E screen \in Screens : GetQuadrant(screen)

WideSpec == Init /\ [][WideNext]_vars

(* C15: no sequence of startDrag, drag, endDrag and unknown moveWindow *)
(* messages brings the process to a fatal state.                      *)
GestureMessagesNeverFatal == ~panicked

----------------------------------------------------------------------------
----------------------------------------------------------------------------
----------------------------------------------------------------------------
(* Coordinates and screen extents the other axis is varied over. *)
ProbeCoordinates == {-5000, -220, 0, 459, 460, 5000}

ProbeExtents == {600, 1080, 1920, 4000}

(* C18: the right_half stored by an endDrag or getQuadrant that had the   *)
(* screen size is the one classification yields for the same x and screen *)
(* width under any other y and screen height, and the bottom_half the one *)
(* it yields for the same y and screen height under any other x and       *)
(* screen width.                                                          *)
QuadrantAxesIndependent ==
    (msg.kind \in {"endDrag", "getQuadrant"} /\ msg.screen # NoScreen /\ ~panicked) =>
        \A v \in ProbeCoordinates, e \in ProbeExtents :
            /\ quadrant.is_right_half =
                   ClassifyQuadrant([x |-> position.x, y |-> v],
                                    <<msg.screen[1], e>>).is_right_half
            /\ quadrant.is_bottom_half =
                   ClassifyQuadrant([x |-> v, y |-> position.y],
                                    <<e, msg.screen[2]>>).is_bottom_half

(* An endDrag found the window in the right half and the top half: the *)
(* two axes were classified differently.                               *)
EndDragRightTop ==
    /\ msg.kind = "endDrag"
    /\ msg.screen = <<1920, 1080>>
    /\ CenterX(position) >= MidX(msg.screen)
    /\ CenterY(position) < MidY(msg.screen)
    /\ quadrant = [is_right_half |-> TRUE, is_bottom_half |-> FALSE]

----------------------------------------------------------------------------
(* The Tauri overlay commands (src-tauri/src/overlay) *)

(* Where a backend function can fail: "call" is the Tauri window call of  *)
(* the X11 backend, "handle" the lookup of the native window handle,      *)
(* "create_region" CreateRectRgn, "set_region" SetWindowRgn and "apply"   *)
(* SetWindowPos.                                                          *)
FailurePoints(op) ==
    CASE backend = "wayland" -> {"none"}
      [] backend = "x11" -> {"none", "call"}
      [] backend = "macos" ->
            IF op = "set_input_region" THEN {"none"} ELSE {"none", "handle"}
      [] backend = "windows" ->
            {"none", "handle", "apply"}
                \cup (IF op = "set_input_region" THEN {"create_region", "set_region"}
                      ELSE IF op = "clear_input_region" THEN {"set_region"}
                      ELSE {})

Returned(w, r) == [window |-> w, result |-> r]

(* overlay/x11.rs *)

X11SetClickThrough(w, enabled, fail) ==
    IF fail = "call"
    THEN Returned(w, "Err")
    ELSE Returned([w EXCEPT !.ignore_cursor_events = enabled], "Ok")

X11SetInputRegion(w, rect, fail) ==
    IF fail = "call"
    THEN Returned(w, "Err")
    ELSE Returned([w EXCEPT !.ignore_cursor_events = FALSE], "Ok")

X11ClearInputRegion(w, fail) ==
    IF fail = "call"
    THEN Returned(w, "Err")
    ELSE Returned([w EXCEPT !.ignore_cursor_events = FALSE], "Ok")

X11SetOverlayMode(w, enabled, fail) ==
    IF fail = "call"
    THEN Returned(w, "Err")
    ELSE Returned([w EXCEPT !.always_on_top = enabled], "Ok")

(* overlay/macos.rs *)

MacosSetClickThrough(w, enabled, fail) ==
    IF fail = "handle"
    THEN Returned(w, "Err")
    ELSE Returned([w EXCEPT !.ignore_cursor_events = enabled], "Ok")

(* Variant of MacosSetInputRegion: makes the whole window click-through. *)
MacosSetInputRegionClickThrough(w, rect, fail) ==
    Returned([w EXCEPT !.ignore_cursor_events = TRUE], "Ok")

MacosSetInputRegion(w, rect, fail) == Returned(w, "Ok")

MacosClearInputRegion(w, fail) == MacosSetClickThrough(w, FALSE, fail)

MacosSetOverlayMode(w, enabled, fail) ==
    IF fail = "handle"
    THEN Returned(w, "Err")
    ELSE IF enabled
         THEN Returned([w EXCEPT !.always_on_top = TRUE,
                                 !.all_spaces = TRUE,
                                 !.transparent = TRUE,
                                 !.excluded_from_menu = TRUE], "Ok")
         ELSE Returned([w EXCEPT !.always_on_top = FALSE,
                                 !.all_spaces = FALSE,
                                 !.excluded_from_menu = FALSE], "Ok")

(* overlay/windows.rs. SetWindowPos is called with HWND_TOPMOST and no    *)
(* SWP_NOZORDER by the three input functions, which makes the window      *)
(* topmost; set_overlay_mode(false) passes a null HWND, which is HWND_TOP *)
(* and leaves the topmost state as it is.                                 *)

WindowsSetClickThrough(w, enabled, fail) ==
    IF fail = "handle"
    THEN Returned(w, "Err")
    ELSE LET styled == [w EXCEPT !.ignore_cursor_events = enabled,
                                 !.layered = TRUE]
         IN  IF fail = "apply"
             THEN Returned(styled, "Err")
             ELSE Returned([styled EXCEPT !.always_on_top = TRUE], "Ok")

WindowsSetInputRegion(w, rect, fail) ==
    IF fail = "handle"
    THEN Returned(w, "Err")
    ELSE LET styled == [w EXCEPT !.ignore_cursor_events = FALSE,
                                 !.layered = TRUE]
             shaped == [styled EXCEPT !.region = rect]
         IN  IF fail \in {"create_region", "set_region"}
             THEN Returned(styled, "Err")
             ELSE IF fail = "apply"
                  THEN Returned(shaped, "Err")
                  ELSE Returned([shaped EXCEPT !.always_on_top = TRUE], "Ok")

(* Variant of WindowsClearInputRegion: removes click-through and leaves *)
(* the window region in place.                                         *)
WindowsClearInputRegionKeepsRegion(w, fail) ==
    IF fail = "handle"
    THEN Returned(w, "Err")
    ELSE LET styled == [w EXCEPT !.ignore_cursor_events = FALSE,
                                 !.layered = TRUE]
         IN  IF fail \in {"set_region", "apply"}
             THEN Returned(styled, "Err")
             ELSE Returned([styled EXCEPT !.always_on_top = TRUE], "Ok")

(* The result of SetWindowRgn is not looked at here: it fails only on a *)
(* window handle that is no longer valid, and then the SetWindowPos     *)
(* that follows fails on the same handle and the error is returned.     *)
WindowsClearInputRegion(w, fail) ==
    IF fail = "handle"
    THEN Returned(w, "Err")
    ELSE LET styled == [w EXCEPT !.ignore_cursor_events = FALSE,
                                 !.layered = TRUE]
             cleared == [styled EXCEPT !.region = NoRegion]
         IN  IF fail = "set_region"
             THEN Returned(styled, "Err")
             ELSE IF fail = "apply"
                  THEN Returned(cleared, "Err")
                  ELSE Returned([cleared EXCEPT !.always_on_top = TRUE], "Ok")

WindowsSetOverlayMode(w, enabled, fail) ==
    IF fail = "handle"
    THEN Returned(w, "Err")
    ELSE LET styled == [w EXCEPT !.layered = enabled,
                                 !.toolwindow = enabled,
                                 !.ignore_cursor_events = FALSE]
         IN  IF fail = "apply"
             THEN Returned(styled, "Err")
             ELSE IF enabled
                  THEN Returned([styled EXCEPT !.always_on_top = TRUE], "Ok")
                  ELSE Returned(styled, "Ok")

(* overlay/mod.rs: the commands. On a Wayland session each returns an *)
(* error and does nothing.                                            *)

Refused == Returned(window, "Err")

Finish(c, r) ==
    /\ call' = c
    /\ window' = r.window
    /\ result' = r.result
    /\ UNCHANGED <<backend, outside_overlay>>

set_click_through(enabled) ==
    \E fail \in FailurePoints("set_click_through") :
        Finish(Call("set_click_through", enabled, NoRegion, fail),
               CASE backend = "macos" -> MacosSetClickThrough(window, enabled, fail)
                 [] backend = "windows" -> WindowsSetClickThrough(window, enabled, fail)
                 [] backend = "x11" -> X11SetClickThrough(window, enabled, fail)
                 [] backend = "wayland" -> Refused)

set_input_region(rect) ==
    \E fail \in FailurePoints("set_input_region") :
        Finish(Call("set_input_region", FALSE, rect, fail),
               CASE backend = "macos" -> MacosSetInputRegion(window, rect, fail)
                 [] backend = "windows" -> WindowsSetInputRegion(window, rect, fail)
                 [] backend = "x11" -> X11SetInputRegion(window, rect, fail)
                 [] backend = "wayland" -> Refused)

clear_input_region ==
    \E fail \in FailurePoints("clear_input_region") :
        Finish(Call("clear_input_region", FALSE, NoRegion, fail),
               CASE backend = "macos" -> MacosClearInputRegion(window, fail)
                 [] backend = "windows" -> WindowsClearInputRegion(window, fail)
                 [] backend = "x11" -> X11ClearInputRegion(window, fail)
                 [] backend = "wayland" -> Refused)

set_overlay_mode(enabled) ==
    \E fail \in FailurePoints("set_overlay_mode") :
        Finish(Call("set_overlay_mode", enabled, NoRegion, fail),
               CASE backend = "macos" -> MacosSetOverlayMode(window, enabled, fail)
                 [] backend = "windows" -> WindowsSetOverlayMode(window, enabled, fail)
                 [] backend = "x11" -> X11SetOverlayMode(window, enabled, fail)
                 [] backend = "wayland" -> Refused)

(* The Tauri process: the window exists and the commands arrive in any *)
(* order, on the backend the build and the session select.             *)
OverlayInit == InitDrag /\ InitShell /\ \E b \in Backends : InitOverlay(b)

OverlayNext ==
    \/ \E enabled \in BOOLEAN : set_click_through(enabled)
    \/ \E rect \in Rects : set_input_region(rect)
    \/ clear_input_region
    \/ \E enabled \in BOOLEAN : set_overlay_mode(enabled)

OverlaySpec == OverlayInit /\ [][OverlayNext]_vars

----------------------------------------------------------------------------
(* The step runs set_input_region on a backend without partial input *)
(* regions, and the platform calls it makes succeed.                 *)
SetInputRegionWithoutSupport ==
    /\ call'.op = "set_input_region"
    /\ call'.fail = "none"
    /\ backend \in {"x11", "macos"}

SetInputRegionKeepsClickThrough ==
    [][SetInputRegionWithoutSupport =>
          /\ result' = "Ok"
          /\ window'.ignore_cursor_events = window.ignore_cursor_events]_vars

----------------------------------------------------------------------------
OverlayModeTogglesAlwaysOnTop ==
    (call.op = "set_overlay_mode" /\ result = "Ok") =>
        window.always_on_top = call.enabled

----------------------------------------------------------------------------
(* The quadrant an event reports to the renderer. *)
ReportsQuadrant(event) ==
    /\ event.name \in {"quadrantChange", "initialState"}
    /\ event.isRightHalf = quadrant.is_right_half
    /\ event.isBottomHalf = quadrant.is_bottom_half

(* C28: the stored quadrant is written only by endDrag and getQuadrant, *)
(* and every step that writes it dispatches exactly one quadrantChange  *)
(* or initialState event carrying the value written; no step dispatches *)
(* a quadrant that differs from the stored one.  The quadrant last      *)
(* reported to the renderer is therefore the stored one.                *)
QuadrantWrittenIsReported ==
    /\ quadrant # prev_quadrant =>
           /\ msg.kind \in {"endDrag", "getQuadrant"}
           /\ msg.screen # NoScreen
           /\ Len(emitted) = 1
           /\ ReportsQuadrant(emitted[1])
    /\ \A i \in 1..Len(emitted) :
           emitted[i].name \in {"quadrantChange", "initialState"} =>
               ReportsQuadrant(emitted[i])

(* A getQuadrant handled after a drag session found the window in       *)
(* another quadrant than the stored one and reported it in initialState. *)
GetQuadrantReportedNewQuadrant ==
    /\ msg.kind = "getQuadrant"
    /\ sessions >= 1
    /\ quadrant # prev_quadrant
    /\ Len(emitted) = 1
    /\ emitted[1].name = "initialState"
    /\ emitted[1].isRightHalf = quadrant.is_right_half
    /\ emitted[1].isBottomHalf = quadrant.is_bottom_half

----------------------------------------------------------------------------
(* Visibility: the tray thread, the IPC socket thread and the main loop's *)
(* tray poll, IPC poll, windowControl and setHotkeyEnabled handlers       *)

(* Bound of the model: how many entries the tray channel and the queue of *)
(* tray updates hold.                                                     *)
MaxPending == 2

(* Bound of the model: how many commands the IPC channel holds. *)
MaxIpcPending == 1

(* The strings the socket listener may read; "status" stands for any *)
(* command the main loop does not know.                              *)
IpcCommands == {"toggle", "show", "hide", "status"}

(* A JSON boolean field: <<b>> when present and a boolean, <<>> otherwise. *)
BoolFields == {<<TRUE>>, <<FALSE>>, <<>>}

(* serde_json as_bool().unwrap_or(false) *)
AsBoolOrFalse(v) == IF v = <<>> THEN FALSE ELSE v[1]

(* The program runs until the window is closed. *)
Running == window_shown # "close"

(* What a handler of the main loop works on while it runs. *)
MainLoop ==
    [is_visible |-> is_visible, window_shown |-> window_shown,
     tray_updates |-> tray_updates, tray_polling |-> tray_polling,
     tray_receiver |-> tray_receiver, dispatched |-> <<>>]

(* update_tray_visibility: the assignment is handed to the tray service. *)
UpdateTrayVisibility(s, visible) ==
    [s EXCEPT !.tray_updates = Append(@, visible)]

(* window.present(), is_visible = true, update_tray_visibility(true) *)
Present(s) ==
    UpdateTrayVisibility([s EXCEPT !.window_shown = "present", !.is_visible = TRUE], TRUE)

(* Variant of Hide that hides the window but keeps the flag. *)
HideKeepsFlag(s) ==
    UpdateTrayVisibility([s EXCEPT !.window_shown = "hide"], FALSE)

(* Variant of Hide that does not tell the tray. *)
HideUntold(s) ==
    [s EXCEPT !.window_shown = "hide", !.is_visible = FALSE]

(* window.hide(), is_visible = false, update_tray_visibility(false) *)
Hide(s) ==
    UpdateTrayVisibility([s EXCEPT !.window_shown = "hide", !.is_visible = FALSE], FALSE)

(* evaluate_javascript of a script that dispatches the named event *)
Dispatch(s, event) == [s EXCEPT !.dispatched = Append(@, event)]

(* A handler of the main loop ends in state s. *)
MainLoopDone(s) ==
    /\ Len(s.tray_updates) <= MaxPending
    /\ is_visible' = s.is_visible
    /\ window_shown' = s.window_shown
    /\ tray_updates' = s.tray_updates
    /\ tray_polling' = s.tray_polling
    /\ tray_receiver' = s.tray_receiver
    /\ dispatched' = s.dispatched

(* What a step of the visibility machinery leaves alone. *)
outside_visibility == <<drag_vars, overlay_vars, surface_vars, requests>>

(* Tray::activate: a left click on the tray icon sends Hide or Show by *)
(* the tray's own flag and flips the flag.                             *)
TrayActivate ==
    /\ Running
    /\ Len(tray_receiver) < MaxPending
    /\ handled' = Handled("activate", <<>>)
    /\ tray_receiver' = Append(tray_receiver, IF tray_visible THEN "Hide" ELSE "Show")
    /\ tray_visible' = ~tray_visible
    /\ dispatched' = <<>>
    /\ UNCHANGED <<is_visible, window_shown, hotkey_enabled, tray_updates, tray_polling,
                   ipc_receiver, outside_visibility>>

(* The Show/Hide menu item: it sends the message chosen when the menu was *)
(* built, for the value `visible` had then, and flips the flag.           *)
TrayMenuShowHide(built_visible) ==
    /\ Running
    /\ Len(tray_receiver) < MaxPending
    /\ handled' = Handled("menuShowHide", <<built_visible>>)
    /\ tray_receiver' = Append(tray_receiver, IF built_visible THEN "Hide" ELSE "Show")
    /\ tray_visible' = ~tray_visible
    /\ dispatched' = <<>>
    /\ UNCHANGED <<is_visible, window_shown, hotkey_enabled, tray_updates, tray_polling,
                   ipc_receiver, outside_visibility>>

(* The Quit menu item *)
TrayMenuQuit ==
    /\ Running
    /\ Len(tray_receiver) < MaxPending
    /\ handled' = Handled("menuQuit", <<>>)
    /\ tray_receiver' = Append(tray_receiver, "Quit")
    /\ dispatched' = <<>>
    /\ UNCHANGED <<is_visible, window_shown, hotkey_enabled, tray_visible, tray_updates,
                   tray_polling, ipc_receiver, outside_visibility>>

(* The tray service applies the oldest update_tray_visibility call. *)
TrayUpdate ==
    /\ Running
    /\ tray_updates # <<>>
    /\ handled' = Handled("trayUpdate", <<Head(tray_updates)>>)
    /\ tray_visible' = Head(tray_updates)
    /\ tray_updates' = Tail(tray_updates)
    /\ dispatched' = <<>>
    /\ UNCHANGED <<is_visible, window_shown, hotkey_enabled, tray_receiver, tray_polling,
                   ipc_receiver, outside_visibility>>

(* The body of the tray poll: `while let Ok(msg) = receiver.try_recv()`. *)
(* Quit closes the window and leaves the loop and the timer.             *)
RECURSIVE TrayPoll(_)
TrayPoll(s) ==
    IF s.tray_receiver = <<>>
    THEN s
    ELSE LET tray_msg == Head(s.tray_receiver)
             received == [s EXCEPT !.tray_receiver = Tail(@)]
         IN  CASE tray_msg = "Show" -> TrayPoll(Dispatch(Present(received), "trayShow"))
               [] tray_msg = "Hide" -> TrayPoll(Hide(received))
               [] tray_msg = "Quit" -> [received EXCEPT !.window_shown = "close",
                                                        !.tray_polling = FALSE]

(* The 100 ms timer of the tray poll fires. *)
TrayPollTimer ==
    /\ Running
    /\ tray_polling
    /\ handled' = Handled("trayPoll", <<>>)
    /\ MainLoopDone(TrayPoll(MainLoop))
    /\ UNCHANGED <<hotkey_enabled, tray_visible, ipc_receiver, outside_visibility>>

(* The socket listener thread reads a command and sends it to the main loop. *)
IpcCommand(cmd) ==
    /\ Running
    /\ Len(ipc_receiver) < MaxIpcPending
    /\ handled' = Handled("ipc", <<cmd>>)
    /\ ipc_receiver' = Append(ipc_receiver, cmd)
    /\ dispatched' = <<>>
    /\ UNCHANGED <<is_visible, window_shown, hotkey_enabled, tray_visible, tray_receiver,
                   tray_updates, tray_polling, outside_visibility>>

(* Variant of IpcHandle in which a toggle or a hide received while the *)
(* window is visible hides it at once.                                *)
IpcHandleHidesAtOnce(s, cmd) ==
    CASE cmd = "toggle" -> IF s.is_visible
                           THEN Dispatch(Hide(s), "hotkeyHide")
                           ELSE Dispatch(Present(s), "hotkeyShow")
      [] cmd = "show" -> IF ~s.is_visible
                         THEN Dispatch(Present(s), "hotkeyShow")
                         ELSE s
      [] cmd = "hide" -> IF s.is_visible
                         THEN Dispatch(Hide(s), "hotkeyHide")
                         ELSE s
      [] OTHER -> s

(* One received IPC command, with the hotkey enabled. *)
IpcHandle(s, cmd) ==
    CASE cmd = "toggle" -> IF s.is_visible
                           THEN Dispatch(s, "hotkeyHide")
                           ELSE Dispatch(Present(s), "hotkeyShow")
      [] cmd = "show" -> IF ~s.is_visible
                         THEN Dispatch(Present(s), "hotkeyShow")
                         ELSE s
      [] cmd = "hide" -> IF s.is_visible
                         THEN Dispatch(s, "hotkeyHide")
                         ELSE s
      [] OTHER -> s

(* Variant of the IPC poll that acts on every command, whatever the *)
(* hotkey setting.                                                  *)
RECURSIVE IpcPollAlways(_, _)
IpcPollAlways(s, queue) ==
    IF queue = <<>>
    THEN s
    ELSE IpcPollAlways(IpcHandle(s, Head(queue)), Tail(queue))

(* The body of the IPC poll: `while let Ok(cmd) = ipc_receiver.try_recv()`; *)
(* a command received while the hotkey is disabled is dropped.              *)
RECURSIVE IpcPoll(_, _)
IpcPoll(s, queue) ==
    IF queue = <<>>
    THEN s
    ELSE IpcPoll(IF ~hotkey_enabled THEN s ELSE IpcHandle(s, Head(queue)), Tail(queue))

(* The 50 ms timer of the IPC poll fires. *)
IpcPollTimer ==
    /\ Running
    /\ handled' = Handled("ipcPoll", ipc_receiver)
    /\ MainLoopDone(IpcPoll(MainLoop, ipc_receiver))
    /\ ipc_receiver' = <<>>
    /\ UNCHANGED <<hotkey_enabled, tray_visible, outside_visibility>>

(* Variant of the windowControl handler that puts the window back to its *)
(* default position when it shows it.                                    *)
WindowControlRecentres(action) ==
    /\ Running
    /\ handled' = Handled("windowControl", <<action>>)
    /\ MainLoopDone(CASE action = "hide" -> Hide(MainLoop)
                      [] action = "show" -> Present(MainLoop)
                      [] OTHER -> MainLoop)
    /\ position' = IF action = "show" THEN DefaultPosition ELSE position
    /\ UNCHANGED <<hotkey_enabled, tray_visible, ipc_receiver, overlay_vars, surface_vars,
                   requests, drag_state, quadrant, anchor, margin, msg, emitted,
                   prev_quadrant, moved, sessions, panicked>>

(* windowControl handler *)
WindowControl(action) ==
    /\ Running
    /\ handled' = Handled("windowControl", <<action>>)
    /\ MainLoopDone(CASE action = "hide" -> Hide(MainLoop)
                      [] action = "show" -> Present(MainLoop)
                      [] OTHER -> MainLoop)
    /\ UNCHANGED <<hotkey_enabled, tray_visible, ipc_receiver, outside_visibility>>

(* setHotkeyEnabled handler *)
SetHotkeyEnabled(enabled) ==
    /\ Running
    /\ handled' = Handled("setHotkeyEnabled", enabled)
    /\ hotkey_enabled' = AsBoolOrFalse(enabled)
    /\ dispatched' = <<>>
    /\ UNCHANGED <<is_visible, window_shown, tray_visible, tray_receiver, tray_updates,
                   tray_polling, ipc_receiver, outside_visibility>>

VisibilityNext ==
    \/ TrayActivate
    \/ \E built_visible \in BOOLEAN : TrayMenuShowHide(built_visible)
    \/ TrayMenuQuit
    \/ TrayUpdate
    \/ TrayPollTimer
    \/ \E cmd \in IpcCommands : IpcCommand(cmd)
    \/ IpcPollTimer
    \/ \E action \in {"hide", "show", "minimize"} : WindowControl(action)
    \/ \E enabled \in BoolFields : SetHotkeyEnabled(enabled)

VisibilitySpec == Init /\ [][VisibilityNext]_vars

----------------------------------------------------------------------------
(* C29: after every handler the main loop's is_visible flag tells whether *)
(* the window is shown: it is true when the last window operation was     *)
(* present() and false when it was hide(), whatever tray messages, IPC    *)
(* commands and windowControl messages were handled and in what order.    *)
VisibleFlagMatchesWindow ==
    /\ window_shown = "present" => is_visible
    /\ window_shown = "hide" => ~is_visible

(* An IPC toggle found the window hidden and presented it. *)
IpcToggleShowedWindow ==
    /\ handled.name = "ipcPoll"
    /\ dispatched = <<"hotkeyShow">>
    /\ window_shown = "present"
    /\ is_visible

(* C30: once the tray channel is drained and every update_tray_visibility *)
(* call has been applied, the tray's own `visible` flag equals the main   *)
(* loop's is_visible, for every interleaving of tray clicks, IPC commands *)
(* and windowControl messages.                                            *)
TrayFlagEventuallyConsistent ==
    (tray_receiver = <<>> /\ tray_updates = <<>>) => tray_visible = is_visible

(* The tray applied the update of a hide it did not originate: both *)
(* queues are drained and the two flags agree on hidden.            *)
TrayCaughtUpWithHide ==
    /\ handled = Handled("trayUpdate", <<FALSE>>)
    /\ tray_receiver = <<>>
    /\ tray_updates = <<>>
    /\ ~tray_visible
    /\ ~is_visible

----------------------------------------------------------------------------
(* The window surface: resizeWindow and its 50 ms timer, the focus        *)
(* notification, setInputRegion and openFileDialog                        *)

(* Bound of the model: how many resize timers are pending at a time. *)
MaxTimers == 2

(* Bound of the model: how many file dialogs are open at a time. *)
MaxDialogs == 2

(* Variant of AsI64Or that rounds a fractional number down. *)
AsI64Floor(v, default) ==
    IF v = <<>> THEN default ELSE v[1] \div 2

(* serde_json as_i64().unwrap_or(default) as i32 of a number given in half *)
(* pixels: a number with a fractional part is not an i64.                  *)
AsI64Or(v, default) ==
    IF v = <<>> \/ v[1] % 2 # 0 THEN default ELSE v[1] \div 2

(* The width and height fields a resize message carries, in half pixels: *)
(* both absent, 160 x 380, 161 x 380, and a width of 160.5 alone.        *)
ResizeSizes == {<<<<>>, <<>>>>, <<<<320>>, <<760>>>>, <<<<322>>, <<760>>>>, <<<<321>>, <<>>>>}

(* What a step on the window surface leaves alone. *)
outside_surface == <<drag_vars, overlay_vars, visibility_vars, requests>>

(* An event or a callback evaluated in the renderer, with its payload. *)
Event(name, payload) == [event |-> name, with |-> payload]

(* resizeWindow handler: action "resize" sets the default size and starts *)
(* a one-shot 50 ms timer that remembers whether the window expands.      *)
ResizeWindow(action, width, height) ==
    /\ Running
    /\ handled' = Handled("resizeWindow", <<action, width, height>>)
    /\ dispatched' = <<>>
    /\ IF action = "resize"
       THEN LET w == AsI64Or(width, WINDOW_WIDTH_EXPANDED)
                h == AsI64Or(height, WINDOW_HEIGHT_EXPANDED)
                is_expanding == w > WINDOW_WIDTH_COLLAPSED
            IN  /\ Len(resize_timers) < MaxTimers
                /\ default_size' = <<w, h>>
                /\ resize_timers' = Append(resize_timers, is_expanding)
       ELSE UNCHANGED <<default_size, resize_timers>>
    /\ UNCHANGED <<keyboard_mode, is_active, window_size, input_region, layer, dialogs,
                   outside_surface>>

(* The oldest pending resize timer fires: Exclusive when its resize was *)
(* expanding, OnDemand otherwise.                                       *)
ResizeTimer ==
    /\ Running
    /\ resize_timers # <<>>
    /\ handled' = Handled("resizeTimer", <<Head(resize_timers)>>)
    /\ dispatched' = <<>>
    /\ keyboard_mode' = IF Head(resize_timers) THEN "Exclusive" ELSE "OnDemand"
    /\ resize_timers' = Tail(resize_timers)
    /\ UNCHANGED <<is_active, default_size, window_size, input_region, layer, dialogs,
                   outside_surface>>

(* The window is laid out again with its default size. *)
SizeAllocate ==
    /\ Running
    /\ window_size # default_size
    /\ handled' = Handled("sizeAllocate", default_size)
    /\ dispatched' = <<>>
    /\ window_size' = default_size
    /\ UNCHANGED <<keyboard_mode, is_active, resize_timers, default_size, input_region,
                   layer, dialogs, outside_surface>>

(* connect_is_active_notify: the window gained or lost the focus; on a *)
(* loss the keyboard mode goes back to OnDemand; the renderer is told. *)
IsActiveNotify ==
    /\ Running
    /\ handled' = Handled("isActiveNotify", <<~is_active>>)
    /\ is_active' = ~is_active
    /\ keyboard_mode' = IF ~is_active' THEN "OnDemand" ELSE keyboard_mode
    /\ dispatched' = <<Event("windowFocusChange", <<is_active'>>)>>
    /\ UNCHANGED <<resize_timers, default_size, window_size, input_region, layer, dialogs,
                   outside_surface>>

(* The mode field of a setInputRegion message: absent, or a string. *)
RegionModes == {<<>>, <<"character">>, <<"full">>, <<"none">>}

(* The x, y, width and height fields of a setInputRegion message, in half *)
(* pixels: all absent, all present, and two mixed cases, one with x = 10.5. *)
RegionFields ==
    {[x |-> <<>>, y |-> <<>>, width |-> <<>>, height |-> <<>>],
     [x |-> <<20>>, y |-> <<40>>, width |-> <<200>>, height |-> <<600>>],
     [x |-> <<21>>, y |-> <<>>, width |-> <<>>, height |-> <<600>>],
     [x |-> <<>>, y |-> <<40>>, width |-> <<200>>, height |-> <<>>]}

(* as_str().unwrap_or("full") *)
AsStrOrFull(v) == IF v = <<>> THEN "full" ELSE v[1]

(* The rectangle mode "character" asks for. *)
CharacterRegion(fields) ==
    <<AsI64Or(fields.x, 0), AsI64Or(fields.y, 0),
      AsI64Or(fields.width, 160), AsI64Or(fields.height, 380)>>

(* The rectangle every other mode asks for: the whole window. *)
FullRegion == <<0, 0, window_size[1], window_size[2]>>

(* setInputRegion handler: nothing happens unless the window has a *)
(* surface; `surface` tells whether window.surface() is Some.      *)
SetInputRegion(mode, fields, surface) ==
    /\ Running
    /\ handled' = Handled("setInputRegion", <<mode, fields, surface>>)
    /\ dispatched' = <<>>
    /\ input_region' = IF surface
                       THEN IF AsStrOrFull(mode) = "character"
                            THEN CharacterRegion(fields)
                            ELSE FullRegion
                       ELSE input_region
    /\ UNCHANGED <<keyboard_mode, is_active, resize_timers, default_size, window_size,
                   layer, dialogs, outside_surface>>

(* The callbackId field of an openFileDialog message; "" when absent. *)
CallbackIds == {"", "cb1", "cb2"}

(* openFileDialog handler: with a callbackId, the window is lowered to *)
(* layer Bottom and a file dialog is opened.                           *)
OpenFileDialog(callback_id) ==
    /\ Running
    /\ handled' = Handled("openFileDialog", <<callback_id>>)
    /\ dispatched' = <<>>
    /\ IF callback_id = ""
       THEN UNCHANGED <<layer, dialogs>>
       ELSE /\ Len(dialogs) < MaxDialogs
            /\ layer' = "Bottom"
            /\ dialogs' = Append(dialogs, callback_id)
    /\ UNCHANGED <<keyboard_mode, is_active, resize_timers, default_size, window_size,
                   input_region, outside_surface>>

(* The sequence without its i-th element. *)
Without(seq, i) == SubSeq(seq, 1, i - 1) \o SubSeq(seq, i + 1, Len(seq))

(* The completion callback of an open dialog: the layer goes back to       *)
(* Overlay and the renderer's callback gets the files, or null on a cancel *)
(* or an error.                                                            *)
FileDialogDone(i, outcome) ==
    /\ Running
    /\ handled' = Handled("fileDialogDone", <<dialogs[i], outcome>>)
    /\ layer' = "Overlay"
    /\ dispatched' = <<Event("callback", <<dialogs[i], outcome>>)>>
    /\ dialogs' = Without(dialogs, i)
    /\ UNCHANGED <<keyboard_mode, is_active, resize_timers, default_size, window_size,
                   input_region, outside_surface>>

(* The window's layer-shell attributes: the keyboard mode under resize *)
(* messages, their timers and focus changes, and the layer under file  *)
(* dialogs.                                                            *)
LayerShellNext ==
    \/ \E action \in {"resize", "move"}, size \in ResizeSizes :
          ResizeWindow(action, size[1], size[2])
    \/ ResizeTimer
    \/ IsActiveNotify
    \/ \E callback_id \in CallbackIds : OpenFileDialog(callback_id)
    \/ \E i \in 1..Len(dialogs), outcome \in {"files", "null"} : FileDialogDone(i, outcome)

LayerShellSpec == Init /\ [][LayerShellNext]_vars

(* The resize timers are glib timeouts of the running main loop: each *)
(* fires 50 ms after it was added.                                    *)
LayerShellFairSpec == LayerShellSpec /\ WF_vars(ResizeTimer)

(* The input region: setInputRegion messages between resizes and layouts. *)
RegionNext ==
    \/ \E action \in {"resize", "move"}, size \in ResizeSizes :
          ResizeWindow(action, size[1], size[2])
    \/ ResizeTimer
    \/ SizeAllocate
    \/ \E mode \in RegionModes, fields \in RegionFields, surface \in BOOLEAN :
          SetInputRegion(mode, fields, surface)

RegionSpec == Init /\ [][RegionNext]_vars

----------------------------------------------------------------------------
(* The mode, the fields and the surface of the setInputRegion message the *)
(* step handles.                                                          *)
RegionMessage == [mode |-> handled'.arg[1], fields |-> handled'.arg[2],
                  surface |-> handled'.arg[3]]

(* A field in half pixels, or twice the default when it is missing. *)
GivenOrDefault(v, default) == IF v = <<>> THEN 2 * default ELSE v[1]

(* A field in pixels when it is a whole number, the default otherwise. *)
WholeOrDefault(v, default) ==
    IF v # <<>> /\ v[1] % 2 = 0 THEN v[1] \div 2 ELSE default

(* C22 as stated: a setInputRegion message handled with a surface sets the *)
(* region, for mode "character", to exactly the rectangle of its x, y,     *)
(* width and height fields, with 0, 0, 160 and 380 for missing fields, and *)
(* for every other or missing mode to the whole window; nothing else       *)
(* changes the region.                                                     *)
InputRegionIsGivenRectangle ==
    [][IF handled'.name = "setInputRegion" /\ RegionMessage.surface
       THEN IF RegionMessage.mode = <<"character">>
            THEN /\ 2 * input_region'[1] = GivenOrDefault(RegionMessage.fields.x, 0)
                 /\ 2 * input_region'[2] = GivenOrDefault(RegionMessage.fields.y, 0)
                 /\ 2 * input_region'[3] = GivenOrDefault(RegionMessage.fields.width, 160)
                 /\ 2 * input_region'[4] = GivenOrDefault(RegionMessage.fields.height, 380)
            ELSE input_region' = <<0, 0, window_size[1], window_size[2]>>
       ELSE input_region' = input_region]_vars

(* C22 amended: as above, where a field that is missing or is not a whole *)
(* number takes its default.                                              *)
InputRegionIsWholeRectangle ==
    [][IF handled'.name = "setInputRegion" /\ RegionMessage.surface
       THEN IF RegionMessage.mode = <<"character">>
            THEN input_region' = <<WholeOrDefault(RegionMessage.fields.x, 0),
                                   WholeOrDefault(RegionMessage.fields.y, 0),
                                   WholeOrDefault(RegionMessage.fields.width, 160),
                                   WholeOrDefault(RegionMessage.fields.height, 380)>>
            ELSE input_region' = <<0, 0, window_size[1], window_size[2]>>
       ELSE input_region' = input_region]_vars

(* A "character" message with x = 10.5, a height of 300 and no other *)
(* field was handled with a surface, after a "full" one on the       *)
(* expanded window.                                                  *)
CharacterRegionWithFractionalX ==
    /\ handled.name = "setInputRegion"
    /\ handled.arg = <<<<"character">>,
                       [x |-> <<21>>, y |-> <<>>, width |-> <<>>, height |-> <<600>>],
                       TRUE>>
    /\ window_size = <<WINDOW_WIDTH_EXPANDED, WINDOW_HEIGHT_EXPANDED>>
    /\ input_region = <<0, 0, 160, 300>>

----------------------------------------------------------------------------
(* The last step handled a resize message whose width exceeds the *)
(* collapsed width: its timer is the newest one pending.          *)
ExpandingResizeHandled ==
    /\ handled.name = "resizeWindow"
    /\ handled.arg[1] = "resize"
    /\ resize_timers # <<>>
    /\ resize_timers[Len(resize_timers)]

(* C24: after a resize message whose width exceeds the collapsed width, *)
(* the keyboard mode becomes Exclusive once the 50 ms timer fires, and  *)
(* an Exclusive keyboard mode is followed by OnDemand again, with no    *)
(* further message from the renderer or the user being required: only   *)
(* the timers are assumed to fire.                                      *)
KeyboardFocusForcedThenReleased ==
    /\ ExpandingResizeHandled ~> (keyboard_mode = "Exclusive")
    /\ (keyboard_mode = "Exclusive") ~> (keyboard_mode = "OnDemand")

----------------------------------------------------------------------------
(* Background requests: executeCommand, getSystemInfo and saveFile each    *)
(* spawn a worker thread with a channel and poll the channel every 10 ms   *)

(* Bound of the model: how many background requests a behaviour contains. *)
MaxRequests == 2

(* What a step on the background requests leaves alone. *)
outside_requests == <<drag_vars, overlay_vars, visibility_vars, surface_vars>>

(* A request the main loop accepted: the worker runs, the channel is *)
(* empty and its sender alive, the poll timer is installed, nothing  *)
(* was delivered.                                                    *)
Accepted(kind, callback_id) ==
    [kind |-> kind, callback_id |-> callback_id, worker |-> "running",
     channel |-> <<>>, sender |-> TRUE, polling |-> TRUE, delivered |-> 0]

(* A handler that accepts a background request unless `refused` holds. *)
BackgroundRequest(kind, key, callback_id, refused) ==
    /\ Running
    /\ handled' = Handled(kind, <<key, callback_id>>)
    /\ dispatched' = <<>>
    /\ IF refused
       THEN UNCHANGED requests
       ELSE /\ Len(requests) < MaxRequests
            /\ requests' = Append(requests, Accepted(kind, callback_id))
    /\ UNCHANGED outside_requests

(* executeCommand handler: returns at once when cmd is empty or missing. *)
ExecuteCommand(cmd, callback_id) ==
    BackgroundRequest("executeCommand", cmd, callback_id, cmd = "")

(* getSystemInfo handler *)
GetSystemInfo(callback_id) ==
    BackgroundRequest("getSystemInfo", "", callback_id, FALSE)

(* saveFile handler: returns at once when path is empty or missing. *)
SaveFile(path, callback_id) ==
    BackgroundRequest("saveFile", path, callback_id, path = "")

(* The worker thread of request i finishes: it sends the callback script *)
(* and ends, which drops the sender.                                     *)
WorkerSends(i) ==
    /\ Running
    /\ requests[i].worker = "running"
    /\ handled' = Handled("workerSends", <<i>>)
    /\ dispatched' = <<>>
    /\ requests' = [requests EXCEPT ![i].worker = "sent",
                                    ![i].channel = Append(@, requests[i].callback_id),
                                    ![i].sender = FALSE]
    /\ UNCHANGED outside_requests

(* The worker thread of request i ends without sending (it panicked): *)
(* the sender is dropped with the channel empty.                      *)
WorkerDies(i) ==
    /\ Running
    /\ requests[i].worker = "running"
    /\ handled' = Handled("workerDies", <<i>>)
    /\ dispatched' = <<>>
    /\ requests' = [requests EXCEPT ![i].worker = "died", ![i].sender = FALSE]
    /\ UNCHANGED outside_requests

(* Variant of the poll timer that stays installed after a result. *)
PollTimerKeepsPolling(i) ==
    /\ Running
    /\ requests[i].polling
    /\ handled' = Handled("pollTimer", <<i>>)
    /\ IF requests[i].channel # <<>>
       THEN /\ dispatched' = <<Event("callback", <<Head(requests[i].channel)>>)>>
            /\ requests' = [requests EXCEPT ![i].channel = Tail(@),
                                            ![i].delivered = @ + 1]
       ELSE /\ dispatched' = <<>>
            /\ requests' = [requests EXCEPT ![i].polling = requests[i].sender]
    /\ UNCHANGED outside_requests

(* The 10 ms poll timer of request i fires: try_recv gives the script,   *)
(* which is evaluated and ends the timer; or Empty, and the timer stays; *)
(* or Disconnected, which ends the timer.                                *)
PollTimer(i) ==
    /\ Running
    /\ requests[i].polling
    /\ handled' = Handled("pollTimer", <<i>>)
    /\ IF requests[i].channel # <<>>
       THEN /\ dispatched' = <<Event("callback", <<Head(requests[i].channel)>>)>>
            /\ requests' = [requests EXCEPT ![i].channel = Tail(@),
                                            ![i].delivered = @ + 1,
                                            ![i].polling = FALSE]
       ELSE /\ dispatched' = <<>>
            /\ requests' = [requests EXCEPT ![i].polling = requests[i].sender]
    /\ UNCHANGED outside_requests

(* Background requests, their workers and their poll timers. *)
RequestNext ==
    \/ \E cmd \in {"", "ls"} : ExecuteCommand(cmd, "cb1")
    \/ GetSystemInfo("cb1")
    \/ \E path \in {"", "~/chat.md"} : SaveFile(path, "cb1")
    \/ \E i \in 1..Len(requests) : WorkerSends(i)
    \/ \E i \in 1..Len(requests) : WorkerDies(i)
    \/ \E i \in 1..Len(requests) : PollTimer(i)

RequestSpec == Init /\ [][RequestNext]_vars

(* The poll timers are glib timeouts of the running main loop. *)
RequestFairSpec ==
    RequestSpec /\ \A i \in 1..MaxRequests : WF_vars(i <= Len(requests) /\ PollTimer(i))

----------------------------------------------------------------------------
(* C26: the window's layer is Bottom whenever at least one file dialog is *)
(* still open and Overlay otherwise, also when two dialogs overlap, and   *)
(* every dialog completion delivers exactly one callback to the renderer. *)
LayerLoweredWhileDialogOpen ==
    /\ layer = (IF dialogs # <<>> THEN "Bottom" ELSE "Overlay")
    /\ handled.name = "fileDialogDone" =>
           /\ Len(dispatched) = 1
           /\ dispatched[1].event = "callback"
           /\ dispatched[1].with[1] = handled.arg[1]

----------------------------------------------------------------------------
(* Request i exists and its worker is in the given state. *)
WorkerIs(i, state) == i <= Len(requests) /\ requests[i].worker = state

(* Request i exists, its poll timer has stopped and it was delivered n times. *)
StoppedAfter(i, n) ==
    i <= Len(requests) /\ ~requests[i].polling /\ requests[i].delivered = n

(* C25: for every background request the main loop accepted, once the     *)
(* worker has finished its result is delivered to the renderer exactly    *)
(* once and the poll timer of the request then stops; if the worker ends  *)
(* without sending, the poll timer stops too and nothing is delivered; no *)
(* result is delivered twice and none is lost.                            *)
ResultDeliveredOnce ==
    /\ [](\A i \in 1..Len(requests) :
            /\ requests[i].delivered <= 1
            /\ requests[i].delivered = 1 =>
                   (requests[i].worker = "sent" /\ ~requests[i].polling)
            /\ (requests[i].worker = "sent" /\ requests[i].delivered = 0) =>
                   (requests[i].polling /\ Len(requests[i].channel) = 1)
            /\ requests[i].worker = "running" => requests[i].polling)
    /\ \A i \in 1..MaxRequests : WorkerIs(i, "sent") ~> StoppedAfter(i, 1)
    /\ \A i \in 1..MaxRequests : WorkerIs(i, "died") ~> StoppedAfter(i, 0)

(* Both of two requests are settled: the first worker died and the second *)
(* one's result was delivered; both poll timers have stopped.             *)
BothRequestsSettled ==
    /\ Len(requests) = 2
    /\ requests[1].worker = "died" /\ StoppedAfter(1, 0)
    /\ requests[2].worker = "sent" /\ StoppedAfter(2, 1)
    /\ handled = Handled("pollTimer", <<2>>)
    /\ dispatched = <<Event("callback", <<"cb1">>)>>

----------------------------------------------------------------------------
(* The main loop as a whole: the moveWindow and getQuadrant handlers next *)
(* to the shell's handlers, timers and threads                            *)

(* No shell message is being worked off: every channel, queue and timer *)
(* of the shell is empty.                                               *)
ShellIdle ==
    /\ tray_receiver = <<>>
    /\ tray_updates = <<>>
    /\ ipc_receiver = <<>>
    /\ resize_timers = <<>>

(* Drag gestures of 100 pixels to the right or 51 pixels down arrive at any *)
(* moment; a message for the shell arrives when the shell has worked off   *)
(* the one before.                                                         *)
MainLoopNext ==
    \/ MoveWindowStartDrag
    \/ \E offset \in {<<<<200>>, NoOffset>>, <<NoOffset, <<102>>>>} :
          MoveWindowDrag(offset[1], offset[2])
    \/ \E screen \in Screens : MoveWindowEndDrag(screen)
    \/ \E screen \in Screens : GetQuadrant(screen)
    \/ \E size \in ResizeSizes : ShellIdle /\ ResizeWindow("resize", size[1], size[2])
    \/ ResizeTimer
    \/ \E mode \in {<<>>, <<"character">>} :
          ShellIdle /\ SetInputRegion(mode, CHOOSE fields \in RegionFields :
                                                fields.x = <<>> /\ fields.y = <<>>, TRUE)
    \/ \E action \in {"hide", "show"} : ShellIdle /\ WindowControl(action)
    \/ ShellIdle /\ TrayActivate
    \/ TrayUpdate
    \/ TrayPollTimer
    \/ \E enabled \in {<<TRUE>>, <<FALSE>>} : ShellIdle /\ SetHotkeyEnabled(enabled)
    \/ \E cmd \in {"toggle", "hide"} : ShellIdle /\ IpcCommand(cmd)
    \/ IpcPollTimer

MainLoopSpec == Init /\ [][MainLoopNext]_vars

(* C27: the stored window position changes only in a step that handles a *)
(* drag message while the drag state is Dragging; startDrag, endDrag,    *)
(* getQuadrant, resize, setInputRegion, windowControl, tray and IPC      *)
(* messages leave it unchanged, so that a drag session without an        *)
(* endDrag leaves the window where its last drag put it.                 *)
PositionChangedOnlyByDrag ==
    [][position' # position =>
          /\ msg'.kind = "drag"
          /\ drag_state.is_dragging
          /\ drag_state'.is_dragging
          /\ UNCHANGED shell_vars]_vars

(* A drag session that has moved the window 100 pixels to the right is  *)
(* still open, and the window was since hidden by a windowControl       *)
(* message: the position is the one the drag left.                      *)
OpenDragSessionKeptPosition ==
    /\ drag_state.is_dragging
    /\ msg.kind = "drag"
    /\ position = [x |-> DefaultPosition.x + 100, y |-> DefaultPosition.y]
    /\ handled = Handled("windowControl", <<"hide">>)
    /\ ~is_visible

----------------------------------------------------------------------------
(* C31: while the hotkey-enabled flag is false, which it is initially and *)
(* after every setHotkeyEnabled whose enabled field is false or missing,  *)
(* the IPC poll consumes every command and discards it: is_visible and    *)
(* the window's shown state are unchanged, nothing is dispatched to the   *)
(* renderer and the tray is not told; the commands are gone from the      *)
(* channel, and a later setHotkeyEnabled replays none of them.            *)
DisabledHotkeyDiscardsCommands ==
    [][/\ (handled'.name = "ipcPoll" /\ ~hotkey_enabled) =>
              /\ is_visible' = is_visible
              /\ window_shown' = window_shown
              /\ tray_updates' = tray_updates
              /\ dispatched' = <<>>
              /\ ipc_receiver' = <<>>
       /\ handled'.name = "setHotkeyEnabled" =>
              /\ hotkey_enabled' = (handled'.arg = <<TRUE>>)
              /\ is_visible' = is_visible
              /\ window_shown' = window_shown
              /\ ipc_receiver' = ipc_receiver
              /\ dispatched' = <<>>]_vars

(* A toggle was received with the hotkey disabled while the window was *)
(* hidden: the window stays hidden and the renderer is told nothing.   *)
ToggleDiscardedWhileHidden ==
    /\ handled = Handled("ipcPoll", <<"toggle">>)
    /\ ~hotkey_enabled
    /\ ~is_visible
    /\ window_shown = "hide"
    /\ dispatched = <<>>
    /\ ipc_receiver = <<>>

----------------------------------------------------------------------------
(* What the renderer is sent for a run of IPC commands handled with the *)
(* hotkey enabled, by whether the window is visible when the run starts: *)
(* hotkeyHide for a toggle or a hide that finds it visible, hotkeyShow   *)
(* for a toggle or a show that finds it hidden, nothing otherwise.  Only *)
(* a toggle or a show that finds the window hidden changes visibility.   *)
RECURSIVE HotkeyEvents(_, _)
HotkeyEvents(visible, cmds) ==
    IF cmds = <<>>
    THEN <<>>
    ELSE LET cmd == Head(cmds)
         IN  IF visible
             THEN (IF cmd \in {"toggle", "hide"} THEN <<"hotkeyHide">> ELSE <<>>)
                      \o HotkeyEvents(TRUE, Tail(cmds))
             ELSE IF cmd \in {"toggle", "show"}
                  THEN <<"hotkeyShow">> \o HotkeyEvents(TRUE, Tail(cmds))
                  ELSE HotkeyEvents(FALSE, Tail(cmds))

(* Some command of the run is a toggle or a show. *)
AsksToShow(cmds) == \E i \in 1..Len(cmds) : cmds[i] \in {"toggle", "show"}

----------------------------------------------------------------------------
(* C33: whenever the window is not active its keyboard mode is OnDemand, *)
(* for every interleaving of resize messages, their timers and           *)
(* focus-change notifications.                                           *)
InactiveWindowIsOnDemand ==
    ~is_active => keyboard_mode = "OnDemand"

----------------------------------------------------------------------------
(* C34: on every backend set_click_through, set_input_region and *)
(* clear_input_region leave the always-on-top state of the window as it *)
(* was before the call.                                                  *)
InputOperationsKeepAlwaysOnTop ==
    [][call'.op \in {"set_click_through", "set_input_region", "clear_input_region"} =>
          window'.always_on_top = window.always_on_top]_vars

(* C35: on every backend set_overlay_mode leaves the click-through state *)
(* of the window as it was before the call.                              *)
OverlayModeKeepsClickThrough ==
    [][call'.op = "set_overlay_mode" =>
          window'.ignore_cursor_events = window.ignore_cursor_events]_vars

----------------------------------------------------------------------------
(* C36: in a drag of an open session the additions origin + offset, with  *)
(* the offset converted to a 32-bit integer by saturation, stay within    *)
(* the 32-bit signed range on both axes, and so does the centre           *)
(* computation position + window_size/2 that an endDrag or a getQuadrant  *)
(* with the screen size makes on the position held at that time.          *)
DragArithmeticStaysInI32 ==
    [][/\ (msg'.kind = "drag" /\ drag_state.is_dragging) =>
              /\ ~OverflowsI32(drag_state.start_x, F64AsI32(AsF64OrZero(msg'.offsetX)))
              /\ ~OverflowsI32(drag_state.start_y, F64AsI32(AsF64OrZero(msg'.offsetY)))
       /\ (msg'.kind \in {"endDrag", "getQuadrant"} /\ msg'.screen # NoScreen) =>
              ~CenterOverflows(position)]_vars

====
